---- MODULE Spec2Model ----
(***************************************************************************)
(* Documentation provisioning and lookup serving of the Hydocs MCP server. *)
(*                                                                         *)
(*   utils/downloader  downloadAndExtractDocs, hasUrlChanged, saveLastUrl, *)
(*                     downloadFile, extractZip, validateDocsDirectory     *)
(*   utils/lookup      loadLookup and the module-level lookupCache         *)
(*   tools/handlers    searchHytaleClasses, readHytaleClassDocs            *)
(*   index.ts          process start-up, app.listen, the tool call handler *)
(*                                                                         *)
(* Strings that the code trims, lower-cases or searches are sequences of   *)
(* one-character strings, so that those conversions are computed.          *)
(***************************************************************************)
EXTENDS Integers, Sequences, FiniteSets, TLC

\* ------------------------------------------------------------------ bounds
\* tool calls started in one behaviour
MaxCalls == 2
\* tool calls started in one behaviour of the specification of the races
RaceCalls == 3
\* tool calls started in one behaviour of the specification of the queries
QueryCalls == 1
\* requests to /mcp opened in one behaviour
MaxRequests == 3
\* entries of the generated indexes
BigLen == 26

\* ------------------------------------------------------- program constants
MAX_SEARCH_RESULTS == 25

LOOKUP_FILE == "class_lookup.json"

\* ----------------------------------------------------------------- strings
IsSpace(ch) == ch = " "

RECURSIVE TrimStart(_)
TrimStart(s) ==
    IF s = <<>> THEN s
    ELSE IF IsSpace(Head(s)) THEN TrimStart(Tail(s)) ELSE s

RECURSIVE TrimEnd(_)
TrimEnd(s) ==
    IF s = <<>> THEN s
    ELSE IF IsSpace(s[Len(s)]) THEN TrimEnd(SubSeq(s, 1, Len(s) - 1)) ELSE s

\* (mutant) the input is used as it was given.
TrimNothing(s) == s

\* String.prototype.trim
Trim(s) == TrimEnd(TrimStart(s))

LowerChar(ch) ==
    CASE ch = "A" -> "a"
      [] ch = "B" -> "b"
      [] ch = "F" -> "f"
      [] ch = "O" -> "o"
      [] ch = "V" -> "v"
      [] ch = "Z" -> "z"
      [] OTHER -> ch

\* String.prototype.toLowerCase
ToLowerCase(s) == [i \in 1..Len(s) |-> LowerChar(s[i])]

\* String.prototype.includes
Includes(hay, needle) ==
    \E i \in 0..(Len(hay) - Len(needle)) :
        SubSeq(hay, i + 1, i + Len(needle)) = needle

\* ------------------------------------------------------------ the remote
\* config.docsUrl: undefined or "" (both falsy) is the empty sequence.
NoUrl == <<>>

Urls == { NoUrl, <<"a">>, <<"a", " ">>, <<"b">>, <<"c">> }

\* The identifiers of the runs that refresh the store of a serving process.
ServeUrls == { <<"b">> }

\* The archive a source serves: its entries in archive order, each a path and
\* the data of the file.  Bundle A has an index and two bodies, bundle B an
\* index and one body (stored after the body), bundle C has no index.
ArchiveOf(tag) ==
    CASE tag = "A" -> << [path |-> LOOKUP_FILE, data |-> "A"],
                         [path |-> "f1", data |-> "A"],
                         [path |-> "f2", data |-> "A"] >>
      [] tag = "B" -> << [path |-> "f1", data |-> "B"],
                         [path |-> LOOKUP_FILE, data |-> "B"] >>
      [] tag = "C" -> << [path |-> "f1", data |-> "C"] >>
      [] OTHER -> << >>

\* fetch() strips leading and trailing whitespace of the URL it is given.
RemoteTag(url) ==
    CASE Trim(url) = <<"a">> -> "A"
      [] Trim(url) = <<"b">> -> "B"
      [] Trim(url) = <<"c">> -> "C"
      [] OTHER -> "none"

\* An entry of the index: the key of the JSON object and its ClassInfo.
Entry(key, path, type) ==
    [key |-> key, full_name |-> key, path |-> path, type |-> type]

Digit(d) == << "0", "1", "2", "3", "4", "5", "6", "7", "8", "9" >>[d + 1]

\* The decimal digits of a number, as characters.
RECURSIVE Digits(_)
Digits(n) ==
    IF n < 10 THEN << Digit(n) >> ELSE Append(Digits(n \div 10), Digit(n % 10))

\* An index of n entries with keys o1, o2, ...; `share` consecutive entries
\* have the same documentation path.
BigIndex(n, share) ==
    [i \in 1..n |->
        Entry(<<"o">> \o Digits(i), ToString((i + share - 1) \div share), "class")]

\* The name of a property every object inherits from Object.prototype.
ValueOf == << "v", "a", "l", "u", "e", "O", "f" >>

\* JSON.parse of the index file of a bundle: the entries in key order.
\* D has keys equal under lower-casing and a path shared by a key that
\* contains "ba" and one that does not; P has a key that differs in case
\* from an inherited property name; G and H are generated.
LookupOf(tag) ==
    CASE tag = "A" -> << Entry(<<"F", "o">>, "f1", "class"),
                         Entry(<<"B", "a">>, "f2", "enum") >>
      [] tag = "B" -> << Entry(<<"F", "o">>, "f1", "class"),
                         Entry(<<"B", "z">>, "f1", "interface") >>
      [] tag = "D" -> << Entry(<<"F", "o">>, "f1", "class"),
                         Entry(<<"B", "a">>, "f2", "enum"),
                         Entry(<<"b", "A">>, "f1", "interface"),
                         Entry(<<"B", "A">>, "f2", "class") >>
      [] tag = "P" -> << Entry(<<"V", "a", "l", "u", "e", "O", "f">>, "f1", "class") >>
      [] tag = "G" -> BigIndex(BigLen, 1)
      [] tag = "H" -> BigIndex(BigLen, 2)
      [] OTHER -> << >>

\* The indexes of the stores that the queries are checked over.
QueryIndexes == { "none", "D", "P", "G", "H" }

\* ------------------------------------------------------------- the store
StorePaths == { LOOKUP_FILE, "f1", "f2" }

EmptyStore == [p \in StorePaths |-> "none"]

NoUrlFile == [exists |-> FALSE, data |-> <<>>]

VARIABLES
    store,        \* files under docsDir: path -> data, "none" when absent
    lastUrlFile,  \* docsDir/.last-download-url
    run,          \* the provisioning run in progress, or the last one
    other,        \* a second invocation of the provisioner in the same process
    srv,          \* the server process: "starting" or "listening"
    lookupCache,  \* utils/lookup lookupCache: "null" or the bundle it was parsed from
    callers,      \* the tool calls, in order of arrival
    out,          \* the tool call that the last step completed, if any
    firstIndex,   \* the index the first successful load produced, "null" before it
    loadFailed,   \* a load of the index has failed in this process
    http          \* the requests to /mcp and the gauge mcpActiveConnections

vars == << store, lastUrlFile, run, other, srv, lookupCache, callers, out,
           firstIndex, loadFailed, http >>

provVars == << store, lastUrlFile, run, other >>

queryVars == << lookupCache, callers, firstIndex, loadFailed >>

\* ------------------------------------------------------------ the queries
\* The entry a name resolves to in readHytaleClassDocs: lookup[className],
\* else the first key equal under lower-casing; << >> when there is none.
ExactMatch(lookup, name) ==
    SelectSeq(lookup, LAMBDA e : e.key = name)

\* The names lookup[className] finds on the prototype of the parsed object.
ObjectPrototypeNames == { ValueOf }

\* What lookup[className] gives for such a name: a function, which is truthy
\* and has no path, no type and no full_name.
Inherited(name) ==
    [key |-> name, full_name |-> <<>>, path |-> "undefined", type |-> "undefined"]

FoldMatch(lookup, name) ==
    SelectSeq(lookup, LAMBDA e : ToLowerCase(e.key) = ToLowerCase(name))

Resolve(lookup, name) ==
    IF ExactMatch(lookup, name) # <<>> THEN <<Head(ExactMatch(lookup, name))>>
    ELSE IF name \in ObjectPrototypeNames THEN << Inherited(name) >>
    ELSE IF FoldMatch(lookup, name) # <<>> THEN <<Head(FoldMatch(lookup, name))>>
    ELSE <<>>

\* The line of a match: `- ${info.full_name} (${info.type})`.
Line(e) == << "- ", e.full_name, " (", e.type, ")" >>

\* (mutant) the path of every entry visited is recorded, matching or not.
RECURSIVE SearchLoopSeenAll(_, _, _, _)
SearchLoopSeenAll(entries, query, seenPaths, matches) ==
    IF entries = <<>> \/ Len(matches) >= MAX_SEARCH_RESULTS THEN matches
    ELSE LET e == Head(entries)
         IN  IF Includes(ToLowerCase(e.key), query) /\ e.path \notin seenPaths
             THEN SearchLoopSeenAll(Tail(entries), query, seenPaths \cup {e.path},
                                    Append(matches, Line(e)))
             ELSE SearchLoopSeenAll(Tail(entries), query, seenPaths \cup {e.path},
                                    matches)

\* (mutant) the loop without the break at MAX_SEARCH_RESULTS.
RECURSIVE SearchLoopUncapped(_, _, _, _)
SearchLoopUncapped(entries, query, seenPaths, matches) ==
    IF entries = <<>> THEN matches
    ELSE LET e == Head(entries)
         IN  IF Includes(ToLowerCase(e.key), query) /\ e.path \notin seenPaths
             THEN SearchLoopUncapped(Tail(entries), query, seenPaths \cup {e.path},
                                     Append(matches, Line(e)))
             ELSE SearchLoopUncapped(Tail(entries), query, seenPaths, matches)

\* The loop of searchHytaleClasses over Object.entries(lookup).
RECURSIVE SearchLoop(_, _, _, _)
SearchLoop(entries, query, seenPaths, matches) ==
    IF entries = <<>> \/ Len(matches) >= MAX_SEARCH_RESULTS THEN matches
    ELSE LET e == Head(entries)
         IN  IF Includes(ToLowerCase(e.key), query) /\ e.path \notin seenPaths
             THEN SearchLoop(Tail(entries), query, seenPaths \cup {e.path},
                             Append(matches, Line(e)))
             ELSE SearchLoop(Tail(entries), query, seenPaths, matches)

Ok(lines, content) ==
    [status |-> "ok", err |-> "none", lines |-> lines, content |-> content]

\* (mutant) the error leaves the CallTool handler as a rejection.
ErrThrown(e) == [status |-> "thrown", err |-> e, lines |-> <<>>, content |-> "none"]

\* An error thrown in a tool handler, once the catch of the CallTool handler
\* has turned it into a result.
Err(e) == [status |-> "error", err |-> e, lines |-> <<>>, content |-> "none"]

\* What matches.join("\n") or the fixed text of an empty search gives.
SearchText(lines) ==
    IF lines = <<>> THEN << "No matches found for your search query." >> ELSE lines

\* The value the CallTool handler returns for the result of a tool.
Response(op, res) ==
    IF res.status = "error"
    THEN [isError |-> TRUE, text |-> << "Error: ", res.err >>]
    ELSE [isError |-> FALSE,
          text |-> IF op = "search" THEN SearchText(res.lines) ELSE << res.content >>]

NoRes == [status |-> "none", err |-> "none", lines |-> <<>>, content |-> "none"]

\* A tool call: data is what its read of the index file gave, lookup the index
\* loadLookup returned to it; afterFail: it arrived after a load of the index
\* had failed; loaded: it read the index file itself.
IdleCaller ==
    [ pc |-> "idle", op |-> "none", arg |-> <<>>, data |-> "none",
      lookup |-> "null", afterFail |-> FALSE, loaded |-> FALSE,
      res |-> NoRes ]

\* The step completes no tool call.
Quiet == out' = IdleCaller

\* A file of the store that holds no bundle data cannot be read, and an index
\* file is parsed into the index of the bundle that wrote it.
Readable(data) == data # "none"

\* ------------------------------------------------- the state of the system
Disk == [store |-> store, lastUrlFile |-> lastUrlFile]

\* Every name of the index on disk resolves to a body that can be read.
Usable(st) ==
    /\ Readable(st[LOOKUP_FILE])
    /\ \A i \in 1..Len(LookupOf(st[LOOKUP_FILE])) :
          Readable(st[LookupOf(st[LOOKUP_FILE])[i].path])

\* --------------------------------------------------------- the provisioner
\* A run of downloadAndExtractDocs: where it is suspended (pc), config.docsUrl
\* (url), the fetched archive (zip), and how it ended (outcome, err).  The
\* other fields record what the run did: the steps it completed, the requests
\* it issued (net), whether it changed a file (wrote), how its read of the
\* identifier file ended (read), what the store held when it started
\* (hadIndex, hadBundle) and how the run before it ended (again); save is how
\* its write of the identifier file ended, "none" before it.  abortAt is
\* the state of the AbortController of downloadFile: "none", or where the
\* download was suspended when the timer fired and aborted it.
IdleRun ==
    [ pc |-> "idle", url |-> NoUrl, zip |-> "none", steps |-> <<>>,
      net |-> 0, outcome |-> "none", err |-> "none", abortAt |-> "none",
      save |-> "none",
      hadBundle |-> FALSE, hadIndex |-> FALSE, wrote |-> FALSE,
      again |-> "no", read |-> "none" ]

\* How the run that ended relates to a run that starts now with identifier u:
\* "saved" when it had the same identifier (after trimming), returned
\* normally and left that identifier in the identifier file, "ready" when it
\* returned normally otherwise, "invalid" when it failed validation;
\* "unsaved" when it returned normally and its write of the identifier file
\* failed, but the file held that identifier already.
Again(ended, u) ==
    IF ended.outcome = "none" \/ Trim(ended.url) # Trim(u) THEN "no"
    ELSE IF ended.outcome = "ready"
    THEN IF lastUrlFile.exists /\ Trim(lastUrlFile.data) = Trim(u)
         THEN IF ended.save = "failed" THEN "unsaved" ELSE "saved"
         ELSE "ready"
    ELSE IF ended.err = "invalid" THEN "invalid"
    ELSE "no"

\* The run returns normally.
Ready(r) == [r EXCEPT !.pc = "idle", !.outcome = "ready"]

\* The run rejects with an error (the catch block rethrows).
Failed(r, e) == [r EXCEPT !.pc = "idle", !.outcome = "failed", !.err = e]

\* (mutant) the check of config.docsUrl is missing.
UnconfiguredNever(u) == FALSE

\* The configured identifier is absent: return at once.
Unconfigured(u) == u = NoUrl

\* downloadAndExtractDocs up to its first await.
ProvStart(u) ==
    /\ run.pc = "idle"
    /\ LET r == [IdleRun EXCEPT !.url = u, !.hadBundle = Usable(store),
                                !.hadIndex = Readable(store[LOOKUP_FILE]),
                                !.again = Again(run, u)]
       IN  run' = IF Unconfigured(u) THEN Ready(r) ELSE [r EXCEPT !.pc = "check"]
    /\ UNCHANGED << store, lastUrlFile, srv >>
    /\ Quiet
    /\ UNCHANGED << queryVars, other, http >>

\* (mutant) the comparison without trim().
UrlChangedUntrimmed(readable) ==
    IF lastUrlFile.exists /\ readable
    THEN lastUrlFile.data # run.url
    ELSE TRUE

\* (mutant) every run is taken to have a changed identifier.
UrlChangedAlways(readable) == TRUE

\* hasUrlChanged: the read of the identifier file fails when the file is
\* absent or cannot be read.
UrlChanged(readable) ==
    IF lastUrlFile.exists /\ readable
    THEN Trim(lastUrlFile.data) # Trim(run.url)
    ELSE TRUE

\* The continuation after hasUrlChanged: return, or start downloadFile,
\* which arms the timer and issues the request.
ProvCheck ==
    /\ run.pc = "check"
    /\ \E readable \in BOOLEAN :
         LET r == [run EXCEPT !.steps = Append(@, "check"),
                              !.read = IF lastUrlFile.exists /\ readable
                                       THEN "ok" ELSE "failed"]
         IN  run' = IF UrlChanged(readable)
                    THEN [r EXCEPT !.pc = "fetch", !.net = @ + 1]
                    ELSE Ready(r)
    /\ UNCHANGED << store, lastUrlFile, srv >>
    /\ Quiet
    /\ UNCHANGED << queryVars, other, http >>

\* How the request or the read of the body can end while the signal is not
\* aborted.
FetchOutcomes == { "ok", "http", "network" }

\* (mutant) the error of downloadFile is logged and the run goes on to
\* extract what the source serves.
FetchFailedExtracts(r, e) ==
    [r EXCEPT !.pc = "extract", !.zip = RemoteTag(r.url), !.err = e]

\* (mutant) a failed download is attempted once more.
FetchFailedRetries(r, e) ==
    IF r.net < 2
    THEN [r EXCEPT !.pc = "fetch", !.net = @ + 1, !.abortAt = "none"]
    ELSE Failed(r, e)

\* What downloadAndExtractDocs does when downloadFile rejects.
FetchFailed(r, e) == Failed(r, e)

\* (mutant) downloadFile arms no timer.
DownloadTimeoutNever ==
    /\ FALSE
    /\ UNCHANGED vars

\* The timer of downloadFile fires while the download is suspended at the
\* request or at the read of the body: controller.abort().
DownloadTimeout ==
    /\ run.pc \in { "fetch", "body" }
    /\ run.abortAt = "none"
    /\ run' = [run EXCEPT !.abortAt = run.pc]
    /\ UNCHANGED << store, lastUrlFile, srv >>
    /\ Quiet
    /\ UNCHANGED << queryVars, other, http >>

\* (mutant) the request is made without the signal of the controller.
AbortedUnwired(r) == FALSE

\* The signal passed to fetch is aborted: the pending promise (of the request
\* or of the body) rejects with an AbortError, which the catch of
\* downloadFile turns into the timeout error.
Aborted(r) == r.abortAt # "none"

\* downloadFile: the response (or the failure of the request), then the body.
ProvFetch ==
    /\ run.pc = "fetch"
    /\ IF Aborted(run)
       THEN run' = FetchFailed(run, "timeout")
       ELSE \E o \in FetchOutcomes :
              /\ o = "ok" => RemoteTag(run.url) # "none"
              /\ run' = IF o = "ok"
                        THEN [run EXCEPT !.pc = "body"]
                        ELSE FetchFailed(run, o)
    /\ UNCHANGED << store, lastUrlFile, srv >>
    /\ Quiet
    /\ UNCHANGED << queryVars, other, http >>

\* response.arrayBuffer(); on success extractZip starts and awaits mkdir.
ProvBody ==
    /\ run.pc = "body"
    /\ IF Aborted(run)
       THEN run' = FetchFailed(run, "timeout")
       ELSE \E o \in FetchOutcomes \ { "http" } :
              run' = IF o = "ok"
                     THEN [run EXCEPT !.pc = "extract", !.zip = RemoteTag(run.url),
                                      !.steps = Append(@, "fetch")]
                     ELSE FetchFailed(run, o)
    /\ UNCHANGED << store, lastUrlFile, srv >>
    /\ Quiet
    /\ UNCHANGED << queryVars, other, http >>

\* zip.extractAllTo(destDir, true) writes the entries in archive order over
\* the files of the store, and stops at the first write that fails.
RECURSIVE WriteEntries(_, _, _)
WriteEntries(st, entries, k) ==
    IF k = 0 THEN st
    ELSE WriteEntries([st EXCEPT ![Head(entries).path] = Head(entries).data],
                      Tail(entries), k - 1)

ExtractTo(st, entries, k) == WriteEntries(st, entries, k)

\* extractZip after mkdir: k entries are written; fewer than all of them is
\* an I/O failure (k = 0 also stands for mkdir or the archive parse failing).
ProvExtract ==
    /\ run.pc = "extract"
    /\ \E k \in 0..Len(ArchiveOf(run.zip)) :
         /\ store' = ExtractTo(store, ArchiveOf(run.zip), k)
         /\ LET r == [run EXCEPT !.wrote = @ \/ store' # store]
            IN  run' = IF k = Len(ArchiveOf(run.zip))
                       THEN [r EXCEPT !.pc = "validate",
                                      !.steps = Append(@, "extract")]
                       ELSE Failed(r, "extract")
    /\ UNCHANGED << lastUrlFile, srv >>
    /\ Quiet
    /\ UNCHANGED << queryVars, other, http >>

\* validateDocsDirectory
IsValid(st) == Readable(st[LOOKUP_FILE])

\* (mutant) the result of validateDocsDirectory is ignored.
AfterValidateUnchecked(r, valid) ==
    [r EXCEPT !.pc = "save", !.steps = Append(@, "validate")]

\* The continuation after validateDocsDirectory: throw, or call saveLastUrl.
AfterValidate(r, valid) ==
    IF valid
    THEN [r EXCEPT !.pc = "save", !.steps = Append(@, "validate")]
    ELSE Failed(r, "invalid")

ProvValidate ==
    /\ run.pc = "validate"
    /\ run' = AfterValidate(run, IsValid(store))
    /\ UNCHANGED << store, lastUrlFile, srv >>
    /\ Quiet
    /\ UNCHANGED << queryVars, other, http >>

\* saveLastUrl: a failed write is logged and swallowed.
SaveLastUrl(ok) ==
    IF ok THEN [exists |-> TRUE, data |-> run.url] ELSE lastUrlFile

\* (mutant) the error of the write is thrown to downloadAndExtractDocs.
ProvSaveThrows ==
    /\ run.pc = "save"
    /\ \E ok \in BOOLEAN :
         /\ lastUrlFile' = SaveLastUrl(ok)
         /\ run' = IF ok
                   THEN Ready([run EXCEPT !.steps = Append(@, "save"),
                                          !.save = "ok",
                                          !.wrote = @ \/ lastUrlFile' # lastUrlFile])
                   ELSE Failed([run EXCEPT !.save = "failed"], "save")
    /\ UNCHANGED << store, srv >>
    /\ Quiet
    /\ UNCHANGED << queryVars, other, http >>

ProvSave ==
    /\ run.pc = "save"
    /\ \E ok \in BOOLEAN :
         /\ lastUrlFile' = SaveLastUrl(ok)
         /\ run' = Ready([run EXCEPT !.steps = Append(@, "save"),
                                     !.save = IF ok THEN "ok" ELSE "failed",
                                     !.wrote = @ \/ lastUrlFile' # lastUrlFile])
    /\ UNCHANGED << store, srv >>
    /\ Quiet
    /\ UNCHANGED << queryVars, other, http >>

\* ------------------------------------------------------------- the server
\* index.ts: loadConfig, then app.listen; nothing is awaited in between.
Listen ==
    /\ srv = "starting"
    /\ srv' = "listening"
    /\ UNCHANGED << provVars, http >>
    /\ Quiet
    /\ UNCHANGED queryVars

\* ---------------------------------------------------------- the tool calls
Callers == 1..RaceCalls

SearchArgs == { <<"o">> }

ReadArgs == { <<"F", "o">> }

Requests ==
    [op : {"search"}, arg : SearchArgs] \cup [op : {"read"}, arg : ReadArgs]

\* The tool calls of the specification of the queries: empty and blank
\* input, queries and names in another case or with surrounding blanks, an
\* unknown name, the name of an inherited property, an unknown tool.
QuerySearchArgs ==
    { <<>>, <<" ">>, <<"o">>, <<"o", "1">>, <<" ", "B", "A", " ">>, <<"z">> }

QueryReadArgs ==
    { <<>>, <<" ">>, <<"F", "o">>, <<" ", "f", "O">>, <<"b", "a">>, <<"b", "A">>,
      <<"z">>, ValueOf }

QueryRequests ==
    [op : {"search"}, arg : QuerySearchArgs]
        \cup [op : {"read"}, arg : QueryReadArgs]
        \cup [op : {"unknown"}, arg : { <<>> }]

ClosedCaller == [IdleCaller EXCEPT !.pc = "closed"]

\* searchHytaleClasses once loadLookup has returned an index.
SearchBody(cl, lookup) ==
    LET query == Trim(ToLowerCase(cl.arg))
    IN  IF query = <<>>
        THEN [cl EXCEPT !.pc = "done", !.res = Err("EmptyQuery")]
        ELSE [cl EXCEPT !.pc = "done",
                        !.res = Ok(SearchLoop(LookupOf(lookup), query, {}, <<>>), "none")]

\* readHytaleClassDocs once loadLookup has returned an index, up to the
\* read of the body file.
ReadBody(cl, lookup) ==
    LET className == Trim(cl.arg)
        classInfo == Resolve(LookupOf(lookup), className)
    IN  IF className = <<>>
        THEN [cl EXCEPT !.pc = "done", !.res = Err("EmptyName")]
        ELSE IF classInfo = <<>>
        THEN [cl EXCEPT !.pc = "done", !.res = Err("NameNotFound")]
        ELSE IF classInfo[1].path = "undefined"
        THEN [cl EXCEPT !.pc = "done", !.res = Err("PathArgumentType")]
        ELSE [cl EXCEPT !.pc = "awaitBody"]

\* path.join(docsDir, classInfo.path) of a call suspended at the body read.
DocPath(cl) == Resolve(LookupOf(cl.lookup), Trim(cl.arg))[1].path

\* (mutant) the argument is validated before the index is looked at.
AfterLoadValidatesFirst(cl, lookup) ==
    IF cl.op = "search" /\ Trim(ToLowerCase(cl.arg)) = <<>>
    THEN [cl EXCEPT !.pc = "done", !.res = Err("EmptyQuery")]
    ELSE IF cl.op = "read" /\ Trim(cl.arg) = <<>>
    THEN [cl EXCEPT !.pc = "done", !.res = Err("EmptyName")]
    ELSE IF lookup = "null"
    THEN [cl EXCEPT !.pc = "done", !.res = Err("IndexNotFound")]
    ELSE IF cl.op = "search"
    THEN SearchBody([cl EXCEPT !.lookup = lookup], lookup)
    ELSE ReadBody([cl EXCEPT !.lookup = lookup], lookup)

\* The handler after `await loadLookup(lookupFile)`.
AfterLoad(cl, lookup) ==
    IF lookup = "null"
    THEN [cl EXCEPT !.pc = "done", !.res = Err("IndexNotFound")]
    ELSE IF cl.op = "search"
    THEN SearchBody([cl EXCEPT !.lookup = lookup], lookup)
    ELSE ReadBody([cl EXCEPT !.lookup = lookup], lookup)

\* The handler is suspended again, or it has completed and this step gives
\* its response.
Settle(c, cl) ==
    IF cl.pc = "done"
    THEN /\ callers' = [callers EXCEPT ![c] = ClosedCaller]
         /\ out' = cl
    ELSE /\ callers' = [callers EXCEPT ![c] = cl]
         /\ out' = IdleCaller

\* loadLookup returns the cache when it is set.
Cached == lookupCache # "null"

\* The server accepts tool calls once app.listen has run.
Accepting == srv = "listening"

\* A tool call arrives: the handler runs to its first suspension, which is
\* the read of the index file unless the cache is set.
CallStart(c, rq) ==
    /\ Accepting
    /\ callers[c].pc = "idle"
    /\ \A d \in 1..(c - 1) : callers[d].pc # "idle"
    /\ LET cl == [IdleCaller EXCEPT !.op = rq.op, !.arg = rq.arg,
                                    !.afterFail = loadFailed]
       IN  IF rq.op \notin { "search", "read" }
           THEN Settle(c, [cl EXCEPT !.pc = "done", !.res = Err("UnknownTool")])
           ELSE IF Cached
           THEN Settle(c, AfterLoad(cl, lookupCache))
           ELSE Settle(c, [cl EXCEPT !.pc = "awaitIndex", !.loaded = TRUE])
    /\ UNCHANGED << lookupCache, firstIndex, loadFailed, srv >>
    /\ UNCHANGED << provVars, http >>

\* fs.readFile(lookupFile) completes with the data on disk at that moment.
IndexRead(c) ==
    /\ callers[c].pc = "awaitIndex"
    /\ callers' = [callers EXCEPT ![c] = [@ EXCEPT !.pc = "resumeIndex",
                                                   !.data = store[LOOKUP_FILE]]]
    /\ Quiet
    /\ UNCHANGED << lookupCache, firstIndex, loadFailed, srv >>
    /\ UNCHANGED << provVars, http >>

\* The value of lookupCache after loadLookup has handled the outcome of its
\* read: the parsed index, or what it was when the read or the parse failed.
Loaded(data) == IF Readable(data) THEN data ELSE lookupCache

\* (mutant) a failed load is remembered and later loads return null.
LoadResultSticky(data) == IF Readable(data) /\ ~loadFailed THEN data ELSE "null"

\* What loadLookup returns after its read.
LoadResult(data) == IF Readable(data) THEN data ELSE "null"

\* loadLookup resumes: parse and cache, or log the error and return null;
\* the handler then runs to its next suspension.
LoadResume(c) ==
    /\ callers[c].pc = "resumeIndex"
    /\ LET data == callers[c].data
       IN  /\ lookupCache' = Loaded(data)
           /\ Settle(c, AfterLoad(callers[c], LoadResult(data)))
           /\ firstIndex' = IF firstIndex = "null" /\ Readable(data)
                            THEN data ELSE firstIndex
           /\ loadFailed' = (loadFailed \/ ~Readable(data))
    /\ UNCHANGED srv
    /\ UNCHANGED << provVars, http >>

\* (mutant) a body that cannot be read is reported as an unknown name.
BodyResultNotFound(content) ==
    IF Readable(content) THEN Ok(<<>>, content) ELSE Err("NameNotFound")

\* What readHytaleClassDocs gives after its read of the body file: the
\* content, or the error of fs.readFile.
BodyResult(content) ==
    IF Readable(content) THEN Ok(<<>>, content) ELSE Err("ENOENT")

\* (mutant) the body comes from a cache filled with the bundle of the index.
BodyReadCached(c) ==
    /\ callers[c].pc = "awaitBody"
    /\ Settle(c, [callers[c] EXCEPT
                    !.pc = "done",
                    !.res = Ok(<<>>, callers[c].lookup)])
    /\ UNCHANGED << lookupCache, firstIndex, loadFailed, srv >>
    /\ UNCHANGED << provVars, http >>

\* fs.readFile(docPath) completes.
BodyRead(c) ==
    /\ callers[c].pc = "awaitBody"
    /\ Settle(c, [callers[c] EXCEPT
                    !.pc = "done",
                    !.res = BodyResult(store[DocPath(callers[c])])])
    /\ UNCHANGED << lookupCache, firstIndex, loadFailed, srv >>
    /\ UNCHANGED << provVars, http >>

\* --------------------------------------------------- the requests to /mcp
HttpRequests == 1..MaxRequests

\* A request to /mcp: where its route handler is (pc), and whether the
\* "close" event of its response has been emitted.
IdleRequest == [pc |-> "idle", closed |-> FALSE]

\* No request has arrived and the gauge is at its initial value.
NoRequests == [gauge |-> 0, reqs |-> [r \in HttpRequests |-> IdleRequest]]

\* app.all("/mcp") up to its first await: the gauge is incremented and the
\* "close" listener registered.
RequestOpen(r) ==
    /\ Accepting
    /\ http.reqs[r].pc = "idle"
    /\ http' = [http EXCEPT !.gauge = @ + 1, !.reqs[r].pc = "handling"]
    /\ UNCHANGED << provVars, srv >>
    /\ Quiet
    /\ UNCHANGED queryVars

\* mcpServer.connect and transport.handleRequest have returned.
HandleReturns(r) ==
    /\ http.reqs[r].pc = "handling"
    /\ http' = [http EXCEPT !.reqs[r].pc = "done"]
    /\ UNCHANGED << provVars, srv >>
    /\ Quiet
    /\ UNCHANGED queryVars

\* One of them has thrown: the catch block decrements the gauge and answers
\* 500 when no headers were sent.
HandleThrows(r) ==
    /\ http.reqs[r].pc = "handling"
    /\ http' = [http EXCEPT !.gauge = @ - 1, !.reqs[r].pc = "done"]
    /\ UNCHANGED << provVars, srv >>
    /\ Quiet
    /\ UNCHANGED queryVars

\* The response emits "close", when it has been sent or when the client
\* has gone: the listener decrements the gauge.
ResponseClose(r) ==
    /\ http.reqs[r].pc \in { "handling", "done" }
    /\ ~http.reqs[r].closed
    /\ http' = [http EXCEPT !.gauge = @ - 1, !.reqs[r].closed = TRUE]
    /\ UNCHANGED << provVars, srv >>
    /\ Quiet
    /\ UNCHANGED queryVars

\* ------------------------------------------------------ the specifications
InitServer ==
    /\ srv = "starting"
    /\ lookupCache = "null"
    /\ callers = [c \in Callers |-> IdleCaller]
    /\ out = IdleCaller
    /\ firstIndex = "null"
    /\ loadFailed = FALSE
    /\ http = NoRequests

\* A store that has never been provisioned.
FreshDisk ==
    /\ store = EmptyStore
    /\ lastUrlFile = NoUrlFile
    /\ run = IdleRun
    /\ other = IdleRun

\* The store as the first run with identifier "a" leaves it when every step
\* of the run succeeds.
FirstRunA ==
    [ IdleRun EXCEPT !.url = <<"a">>, !.zip = "A", !.net = 1, !.wrote = TRUE,
                     !.save = "ok",
                     !.outcome = "ready", !.read = "failed",
                     !.steps = << "check", "fetch", "extract", "validate", "save" >> ]

ProvisionedDisk ==
    /\ store = ExtractTo(EmptyStore, ArchiveOf("A"), Len(ArchiveOf("A")))
    /\ lastUrlFile = [exists |-> TRUE, data |-> <<"a">>]
    /\ run = FirstRunA
    /\ other = IdleRun

Init == FreshDisk /\ InitServer

\* A server starts over a store that is fresh or holds bundle A.
InitServe == (FreshDisk \/ ProvisionedDisk) /\ InitServer

\* The provisioning runs of a store, one after the other.
NextProv ==
    \/ \E u \in Urls : ProvStart(u)
    \/ ProvCheck
    \/ ProvFetch
    \/ DownloadTimeout
    \/ ProvBody
    \/ ProvExtract
    \/ ProvValidate
    \/ ProvSave

SpecProv == Init /\ [][NextProv]_vars

\* The server process and its tool calls, over a store that provisioning
\* runs refresh.
Next ==
    \/ \E u \in ServeUrls : ProvStart(u)
    \/ ProvCheck
    \/ ProvFetch
    \/ DownloadTimeout
    \/ ProvBody
    \/ ProvExtract
    \/ ProvValidate
    \/ ProvSave
    \/ Listen
    \/ \E c \in 1..MaxCalls, rq \in Requests : CallStart(c, rq)
    \/ \E c \in Callers : IndexRead(c)
    \/ \E c \in Callers : LoadResume(c)
    \/ \E c \in Callers : BodyRead(c)

Spec == InitServe /\ [][Next]_vars

\* The same with one more tool call, for the races of the first load.
NextRace ==
    \/ \E u \in ServeUrls : ProvStart(u)
    \/ ProvCheck
    \/ ProvFetch
    \/ DownloadTimeout
    \/ ProvBody
    \/ ProvExtract
    \/ ProvValidate
    \/ ProvSave
    \/ Listen
    \/ \E c \in 1..RaceCalls, rq \in Requests : CallStart(c, rq)
    \/ \E c \in Callers : IndexRead(c)
    \/ \E c \in Callers : LoadResume(c)
    \/ \E c \in Callers : BodyRead(c)

SpecRace == InitServe /\ [][NextRace]_vars

\* What the run-time guarantees a run: a continuation whose await has
\* settled is run, file operations settle, and the timer of downloadFile
\* fires unless it is cleared.  Nothing makes the remote answer: the request
\* and the read of the body settle for certain only once they are aborted.
ProvFairness ==
    /\ WF_vars(ProvCheck)
    /\ WF_vars(DownloadTimeout)
    /\ WF_vars(ProvFetch /\ Aborted(run))
    /\ WF_vars(ProvBody /\ Aborted(run))
    /\ WF_vars(ProvExtract)
    /\ WF_vars(ProvValidate)
    /\ WF_vars(ProvSave)

\* The provisioning runs of a store under this scheduling.
SpecProvLive == Init /\ [][NextProv]_vars /\ ProvFairness

\* The requests to the /mcp route of a serving process.
NextHttp ==
    \/ Listen
    \/ \E r \in HttpRequests : RequestOpen(r)
    \/ \E r \in HttpRequests : HandleReturns(r)
    \/ \E r \in HttpRequests : HandleThrows(r)
    \/ \E r \in HttpRequests : ResponseClose(r)

SpecHttp == Init /\ [][NextHttp]_vars

\* The identifiers of two invocations that overlap.
FlightUrls == { <<"a">>, <<"b">> }

\* downloadAndExtractDocs keeps no state outside its invocation, so two
\* invocations run the same continuations over the same store: `run` is the
\* invocation whose continuation the event loop runs next, `other` the one
\* that stays suspended at its await, and the loop may turn to it.
SwitchInvocation ==
    /\ run' = other
    /\ other' = run
    /\ run # other
    /\ UNCHANGED << store, lastUrlFile, srv >>
    /\ Quiet
    /\ UNCHANGED << queryVars, http >>

\* Two invocations of the provisioner in one process.
NextFlight ==
    \/ \E u \in FlightUrls : ProvStart(u)
    \/ ProvCheck
    \/ ProvFetch
    \/ DownloadTimeout
    \/ ProvBody
    \/ ProvExtract
    \/ ProvValidate
    \/ ProvSave
    \/ SwitchInvocation

SpecFlight == Init /\ [][NextFlight]_vars

\* A serving process over a store that holds one of the indexes of the
\* queries, or none, and whose body files may be missing.
InitQuery ==
    /\ \E tag \in QueryIndexes, has1, has2 \in BOOLEAN :
          store = [p \in StorePaths |->
                     IF p = LOOKUP_FILE THEN tag
                     ELSE IF (p = "f1" /\ has1) \/ (p = "f2" /\ has2) THEN tag
                     ELSE "none"]
    /\ lastUrlFile = NoUrlFile
    /\ run = IdleRun
    /\ other = IdleRun
    /\ InitServer

\* The tool calls of a serving process.
NextQuery ==
    \/ Listen
    \/ \E c \in 1..QueryCalls, rq \in QueryRequests : CallStart(c, rq)
    \/ \E c \in Callers : IndexRead(c)
    \/ \E c \in Callers : LoadResume(c)
    \/ \E c \in Callers : BodyRead(c)

SpecQuery == InitQuery /\ [][NextQuery]_vars

\* ================================================================== claims
Ended == run.pc = "idle" /\ run.outcome # "none"

FetchErrors == { "http", "network", "timeout" }

\* C1: whenever no run is in progress and the identifier file is present,
\* every file of the store is a file of the bundle that the identifier
\* names: the store holds no content of another bundle.
C1_StoreIsTheNamedBundle ==
    (run.pc = "idle" /\ lastUrlFile.exists) =>
        \A p \in StorePaths :
            store[p] # "none" => store[p] = RemoteTag(lastUrlFile.data)

\* C2: a run whose extraction fails, started over a usable bundle, has
\* changed no file of the store and the bundle is still usable.
C2_FailedExtractionIsAtomic ==
    (Ended /\ run.err = "extract" /\ run.hadBundle) =>
        (~run.wrote /\ Usable(store))

\* C3: a run whose fetch fails while a usable bundle is on disk returns
\* normally (Ready) and the bundle is still usable.
C3_StaleFallback ==
    (Ended /\ run.err \in FetchErrors /\ run.hadBundle) =>
        (run.outcome = "ready" /\ Usable(store))

\* C4: whenever the server accepts tool calls, a provisioning run has reached
\* a terminal state and none is in progress.
C4_ProvisionedBeforeServing ==
    Accepting => Ended

C6_IdentifierWrittenLast ==
    [][ /\ (lastUrlFile' # lastUrlFile =>
               /\ run.pc = "save"
               /\ run.steps = << "check", "fetch", "extract", "validate" >>
               /\ IsValid(store)
               /\ lastUrlFile'.data = run.url)
        /\ ((run.pc = "validate" /\ ~IsValid(store)) =>
               /\ run'.pc = "idle" /\ run'.outcome = "failed"
               /\ run'.err = "invalid"
               /\ lastUrlFile' = lastUrlFile)
        /\ ((run'.pc = "idle" /\ run'.again = "invalid") => run'.net = 1)
      ]_vars

C6_Witness ==
    /\ Ended /\ run.again = "invalid" /\ run.net = 1
    /\ run.err = "invalid" /\ ~lastUrlFile.exists

\* C7: during the first load at most one read of the index file is issued,
\* and every call that took part in it observes the index that the first
\* successful load produced.
C7_SingleInitialization ==
    /\ Cardinality({ c \in Callers :
                        callers[c].pc \in { "awaitIndex", "resumeIndex" } }) <= 1
    /\ (out.pc = "done" /\ out.loaded /\ out.lookup # "null") =>
           out.lookup = firstIndex

\* C8: a call that arrives after a successful load (it is served from the
\* cache, without a read of the index file) observes the index that the
\* first successful load produced.
C8_CacheNeverChanges ==
    (out.pc = "done" /\ ~out.loaded /\ out.lookup # "null") =>
        out.lookup = firstIndex

C11_FailedStartupNeverServes ==
    [][ (srv = "starting" /\ Ended /\ run.outcome = "failed" /\ ~Usable(store))
            => srv' = "starting" ]_vars

\* C12: the continuation after the change check issues the request exactly
\* when the identifier file is absent or unreadable or its trimmed content
\* differs from the trimmed configured identifier, and otherwise the run
\* returns with no request; a request is issued in no other step and in no
\* run without a configured identifier.
C12_ChangeDetection ==
    [][ /\ (run.pc = "check" =>
               ((run'.pc = "fetch" /\ run'.net = run.net + 1)
                  <=> (run'.read = "failed"
                         \/ Trim(lastUrlFile.data) # Trim(run.url))))
        /\ ((run.pc = "check" /\ run'.pc # "fetch") =>
               (run'.net = run.net /\ run'.pc = "idle" /\ run'.outcome = "ready"))
        /\ (run'.net > run.net => (run.pc = "check" /\ run.url # NoUrl))
        /\ ((run.pc = "idle" /\ run'.pc # "idle") => run'.url # NoUrl)
      ]_vars

C12_Witness ==
    /\ Ended /\ run.url = <<"a">> /\ run.read = "ok"
    /\ lastUrlFile.data = <<"a", " ">>
    /\ run.net = 0 /\ run.steps = << "check" >>

\* The query of a search and the name of a read, as the handlers take them
\* from the argument.
QueryOf(cl) == Trim(ToLowerCase(cl.arg))

NameOf(cl) == Trim(cl.arg)

\* A search, or a read, that has completed with an index loaded.
SearchDone == out.pc = "done" /\ out.op = "search" /\ out.lookup # "null"

ReadDone == out.pc = "done" /\ out.op = "read" /\ out.lookup # "null"

\* The reference result of a search: the positions of the entries whose key
\* contains the query under lower-casing, ...
RefMatching(entries, query) ==
    { i \in 1..Len(entries) : Includes(ToLowerCase(entries[i].key), query) }

\* ... of these the first of each documentation path, ...
RefFirstOfPath(entries, query) ==
    { i \in RefMatching(entries, query) :
        \A j \in RefMatching(entries, query) :
            j < i => entries[j].path # entries[i].path }

\* ... in index order, truncated to the first 25, as lines.
RefSearch(entries, query) ==
    LET kept == SelectSeq([i \in 1..Len(entries) |-> i],
                          LAMBDA i : i \in RefFirstOfPath(entries, query))
        n    == IF Len(kept) < 25 THEN Len(kept) ELSE 25
    IN  [k \in 1..n |-> Line(entries[kept[k]])]

\* C13: a search with an index loaded and a query that is not empty after
\* trimming and lower-casing returns the reference result: the entries whose
\* key contains the query case-insensitively, in index order, the first of
\* each documentation path only (a path is taken only by an entry that
\* matches), truncated to 25.
C13_SearchEqualsReference ==
    (SearchDone /\ QueryOf(out) # <<>>) =>
        out.res = Ok(RefSearch(LookupOf(out.lookup), QueryOf(out)), "none")

\* A search for "ba" over index D: Fo, which does not match, shares its path
\* with bA, which is returned; BA shares its path with Ba and is dropped.
C13_Witness ==
    /\ SearchDone /\ out.lookup = "D" /\ QueryOf(out) = <<"b", "a">>
    /\ out.arg = <<" ", "B", "A", " ">>
    /\ out.res.lines = << Line(LookupOf("D")[2]), Line(LookupOf("D")[3]) >>

\* The entry a read must resolve to by the stated order: the entry with the
\* exact key, else the first entry whose key equals the name under
\* lower-casing.
RefResolve(entries, name) ==
    LET exact == { i \in 1..Len(entries) : entries[i].key = name }
        fold  == { i \in 1..Len(entries) :
                     ToLowerCase(entries[i].key) = ToLowerCase(name) }
        least(S) == CHOOSE i \in S : \A j \in S : i <= j
    IN  IF exact # {} THEN << entries[least(exact)] >>
        ELSE IF fold # {} THEN << entries[least(fold)] >>
        ELSE << >>

\* C14: a read with an index loaded resolves its name by the stated order,
\* and then gives the body at the path of that entry: a name that is not a
\* key but equals one under lower-casing gives the body of that key.
C14_ResolutionOrder ==
    (ReadDone /\ NameOf(out) # <<>>) =>
        LET ref == RefResolve(LookupOf(out.lookup), NameOf(out))
        IN  IF ref = << >> THEN out.res = Err("NameNotFound")
            ELSE out.res = BodyResult(store[ref[1].path])

\* C15: a read that resolves its name to an entry of the index whose body
\* file is absent or unreadable fails, with an error that is not the one of
\* an unknown name.
C15_MissingBodyIsDistinct ==
    LET entries == LookupOf(out.lookup)
        found == Resolve(entries, NameOf(out))
    IN  (ReadDone /\ NameOf(out) # <<>> /\ found # << >>
           /\ (\E i \in 1..Len(entries) : entries[i] = found[1])
           /\ ~Readable(store[found[1].path]))
        => (out.res.status = "error" /\ out.res.err = "ENOENT"
            /\ out.res.err # Err("NameNotFound").err
            /\ Response(out.op, out.res).isError)

C15_Witness ==
    /\ ReadDone /\ out.lookup = "D" /\ out.arg = <<" ", "f", "O">>
    /\ store["f1"] = "none" /\ out.res.err = "ENOENT"

\* C16: with an index loaded, a search whose query is empty after trimming
\* and lower-casing fails with EmptyQuery, for "" and for blank input alike,
\* and a read whose name is empty after trimming fails with EmptyName.
C16_EmptyInputRejected ==
    LET blank == \A i \in 1..Len(out.arg) : out.arg[i] = " "
    IN  /\ (SearchDone /\ blank) => out.res = Err("EmptyQuery")
        /\ (ReadDone /\ blank) => out.res = Err("EmptyName")
        /\ (out.pc = "done" /\ out.res.err \in { "EmptyQuery", "EmptyName" })
              => (blank /\ Response(out.op, out.res).isError)

C16_Witness ==
    /\ SearchDone /\ out.arg = <<" ">> /\ out.res = Err("EmptyQuery")
    /\ Response(out.op, out.res).isError

\* C17: a search returns at most 25 results, and exactly 25 when the entries
\* that match have at least 25 distinct paths; the result is the lines of the
\* entries and nothing else.
C17_CapEnforced ==
    SearchDone =>
        LET entries == LookupOf(out.lookup)
            paths == { entries[i].path : i \in RefMatching(entries, QueryOf(out)) }
        IN  /\ Len(out.res.lines) <= 25
            /\ (out.res.status = "ok" /\ Cardinality(paths) >= 25)
                  => Len(out.res.lines) = 25
            /\ \A k \in 1..Len(out.res.lines) :
                  \E i \in 1..Len(entries) : out.res.lines[k] = Line(entries[i])
            /\ out.res.status = "ok" =>
                  Response(out.op, out.res).text = SearchText(out.res.lines)

C17_Witness ==
    /\ SearchDone /\ out.lookup = "G" /\ out.arg = <<"o">>
    /\ Len(LookupOf("G")) > 25 /\ Len(out.res.lines) = 25

\* The response of the call that a step completes is the result text, or the
\* text 'Error: <message>' with isError set: no error leaves the handler.
Responded(cl) ==
    /\ cl.res.status \in { "ok", "error" }
    /\ Response(cl.op, cl.res).isError = (cl.res.status = "error")
    /\ cl.res.status = "error" =>
          (cl.res.err # "none"
           /\ Response(cl.op, cl.res).text = << "Error: ", cl.res.err >>)

\* C18 as stated: every completed call gives such a response, and the step
\* that completes a failing call leaves the cached index and the store as
\* they were.
C18_FailingCallChangesNothing ==
    [][ /\ (out'.pc = "done" => Responded(out'))
        /\ ((out'.pc = "done" /\ out'.res.status = "error") =>
               (lookupCache' = lookupCache /\ store' = store))
      ]_vars

\* C18 as amended: every completed call (search, read, unknown tool) gives
\* such a response; no step of a call changes a file of the store; and the
\* cached index changes only when a call's own load of the index file
\* completes, to the index that load read, whether the call then fails or
\* not.
C18_ErrorsAreResponses ==
    [][ /\ (out'.pc = "done" => Responded(out'))
        /\ (callers' # callers => (store' = store /\ lastUrlFile' = lastUrlFile))
        /\ (lookupCache' # lookupCache =>
               \E c \in Callers :
                   /\ callers[c].pc = "resumeIndex"
                   /\ callers'[c].pc # "resumeIndex"
                   /\ Readable(callers[c].data)
                   /\ lookupCache' = callers[c].data)
      ]_vars

C18_Witness ==
    /\ out.pc = "done" /\ out.op = "read" /\ out.res.err = "NameNotFound"
    /\ out.loaded /\ lookupCache = out.data /\ Readable(out.data)
    /\ Response(out.op, out.res) =
          [isError |-> TRUE, text |-> << "Error: ", "NameNotFound" >>]

\* The result of a call served from the cached index, when it runs alone
\* against that index and the store: the handler applied to the argument,
\* and for a read that resolves, the body file as the store holds it.
AloneResult(cl) ==
    LET alone == AfterLoad([IdleCaller EXCEPT !.op = cl.op, !.arg = cl.arg],
                           cl.lookup)
    IN  IF alone.pc = "done" THEN alone.res
        ELSE BodyResult(store[DocPath(alone)])

\* C19: once the index is loaded, no step changes the cached index, no step
\* of a call changes a file of the store, and a call served from the cached
\* index completes with the result it gives when run alone against that
\* index and the store.
C19_PureReads ==
    [][ lookupCache # "null" =>
            /\ lookupCache' = lookupCache
            /\ (callers' # callers => store' = store)
            /\ ((out'.pc = "done" /\ out'.op \in { "search", "read" }
                   /\ ~out'.loaded) =>
                   out'.res = AloneResult(out'))
      ]_vars

\* C20: once the timer has fired with the download suspended, at the request
\* or at the read of the body, the run only ends, Failed with the timeout
\* error: no archive reaches the provisioner and nothing is extracted.
C20_TimeoutAborts ==
    [][ /\ ((run.abortAt # "none" /\ run.pc \in { "fetch", "body" } /\ run' # run) =>
               /\ run'.pc = "idle" /\ run'.outcome = "failed"
               /\ run'.err = "timeout"
               /\ store' = store /\ lastUrlFile' = lastUrlFile)
        /\ (run'.abortAt # "none" =>
               /\ run'.zip = "none" /\ ~run'.wrote
               /\ run'.steps = << "check" >>
               /\ run'.pc \in { "fetch", "body", "idle" })
        /\ (run'.err = "timeout" => run'.abortAt # "none")
      ]_vars

C20_Witness ==
    /\ Ended /\ run.outcome = "failed" /\ run.err = "timeout"
    /\ run.abortAt = "body" /\ run.zip = "none" /\ ~run.wrote

\* The invocation is past the change check: fetching, extracting or
\* validating.
PastCheck(r) == r.pc \in { "fetch", "body", "extract", "validate" }

\* C21: two invocations of the provisioner are never both past the change
\* check.
C21_SingleFlight ==
    ~(PastCheck(run) /\ PastCheck(other))

\* C22: while a run is suspended in downloadFile no step changes a file of
\* the store or the identifier file, and a run that ends with a fetch
\* failure (network, HTTP status, timeout) ends Failed having changed
\* neither.
C22_FailedFetchTouchesNothing ==
    [][ /\ (run.pc \in { "fetch", "body" } =>
               (store' = store /\ lastUrlFile' = lastUrlFile))
        /\ ((run'.pc = "idle" /\ run'.err \in FetchErrors) =>
               (run'.outcome = "failed" /\ ~run'.wrote
                /\ run'.steps = << "check" >> /\ run'.zip = "none"))
      ]_vars

C22_Witness ==
    /\ Ended /\ run.err = "http" /\ run.outcome = "failed" /\ ~run.wrote
    /\ run.hadBundle /\ Usable(store)
    /\ lastUrlFile = [exists |-> TRUE, data |-> <<"a">>]
    /\ run.url = <<"b">>

\* C23: a read that resolves its name completes with what the body file
\* holds in the store at that moment, the content or the error of the read,
\* at the path that the index the call was given (the cached one) maps the
\* name to, whatever earlier reads of the same name returned.
C23_BodyReadAtCallTime ==
    [][ \A c \in Callers :
          (callers[c].pc = "awaitBody" /\ callers'[c].pc # "awaitBody") =>
              /\ out'.pc = "done" /\ out'.op = "read"
              /\ out'.lookup = callers[c].lookup
              /\ out'.res =
                    BodyResult(store[Resolve(LookupOf(out'.lookup),
                                             NameOf(out'))[1].path])
      ]_vars

\* A read served from the cached index of bundle A, after a refresh has
\* replaced the body file: the content is that of bundle B.
C23_Witness ==
    /\ ReadDone /\ ~out.loaded /\ out.lookup = "A" /\ lookupCache = "A"
    /\ out.arg = <<"F", "o">>
    /\ out.res = Ok(<<>>, "B") /\ store["f1"] = "B"

\* C24: a read with an index loaded whose name, not empty, equals no key of
\* the index, exactly or under lower-casing, fails with NameNotFound, in
\* the step in which the index is at hand: it reads no file.
C24_UnknownNameNotFound ==
    (ReadDone /\ NameOf(out) # <<>>
       /\ RefResolve(LookupOf(out.lookup), NameOf(out)) = << >>)
    => out.res = Err("NameNotFound")

\* C25: a run issues at most one request, and when the request or the read
\* of the body fails the run ends in that step, Failed with that error,
\* without another request.
C25_NoRetry ==
    [][ /\ run'.net <= 1
        /\ ((run.pc \in { "fetch", "body" }
               /\ run'.pc \notin { "fetch", "body", "extract" }) =>
               /\ run'.pc = "idle" /\ run'.outcome = "failed"
               /\ run'.err \in FetchErrors
               /\ run'.net = run.net)
      ]_vars

C25_Witness ==
    /\ Ended /\ run.outcome = "failed" /\ run.err = "network"
    /\ run.net = 1 /\ run.abortAt = "none" /\ run.steps = << "check" >>

\* C26: every run that has started eventually ends, Ready or Failed, also
\* when the remote never answers.
C26_RunTerminates ==
    (run.pc # "idle") ~>
        (run.pc = "idle" /\ run.outcome \in { "ready", "failed" })

\* A run whose request got no response and was ended by the timer.
C26_Witness ==
    /\ Ended /\ run.outcome = "failed" /\ run.err = "timeout"
    /\ run.abortAt = "fetch" /\ run.net = 1

\* C27: a search or a read whose load of the index fails completes with the
\* index failure, whatever its argument, empty or not; and only such a call
\* gets the index failure.
C27_IndexFailureFirst ==
    (out.pc = "done" /\ out.op \in { "search", "read" }) =>
        /\ (out.loaded /\ ~Readable(out.data)) =>
              (out.res = Err("IndexNotFound")
               /\ Response(out.op, out.res).isError)
        /\ out.res.err = "IndexNotFound" =>
              (out.loaded /\ ~Readable(out.data) /\ out.lookup = "null")

\* A search with a blank query over a store without an index file.
C27_Witness ==
    /\ out.pc = "done" /\ out.op = "search" /\ out.arg = <<" ">>
    /\ out.loaded /\ out.data = "none" /\ store[LOOKUP_FILE] = "none"
    /\ out.res = Err("IndexNotFound")

\* C28 as stated: a failed write of the identifier file ends the run Ready
\* with the file as it was, and the run after it, with the same identifier,
\* issues its request again.
C28_UnsavedRunFetchesAgain ==
    [][ /\ ((run.pc = "save" /\ run'.save = "failed") =>
               (run'.pc = "idle" /\ run'.outcome = "ready" /\ run'.err = "none"
                /\ lastUrlFile' = lastUrlFile))
        /\ ((run.pc = "check" /\ run.again \in { "ready", "unsaved" }) =>
               (run'.pc = "fetch" /\ run'.net = 1))
      ]_vars

\* C28 as amended: a failed write of the identifier file ends the run Ready
\* with the file as it was; the run after it, with the same identifier,
\* issues its request again when the file does not hold that identifier.
C28_WriteFailureSwallowed ==
    [][ /\ ((run.pc = "save" /\ run'.save = "failed") =>
               (run'.pc = "idle" /\ run'.outcome = "ready" /\ run'.err = "none"
                /\ lastUrlFile' = lastUrlFile))
        /\ ((run.pc = "check" /\ run.again = "ready") =>
               (run'.pc = "fetch" /\ run'.net = 1))
      ]_vars

\* The run after one whose write failed has fetched and extracted again.
C28_Witness ==
    /\ Ended /\ run.again = "ready" /\ run.url = <<"a">> /\ run.net = 1
    /\ Len(run.steps) >= 3 /\ run.steps[3] = "extract" /\ run.wrote = FALSE

\* C29: the gauge equals the number of requests to /mcp that have been
\* opened and whose response has not closed, and is never negative.
C29_GaugeBalanced ==
    /\ http.gauge = Cardinality({ r \in HttpRequests :
                                    http.reqs[r].pc # "idle"
                                    /\ ~http.reqs[r].closed })
    /\ http.gauge >= 0

====
